---- MODULE Spec2Model ----
(***************************************************************************)
(* Model of scripts/github_ai_news_digest.py: the daily digest run         *)
(* (generate_daily_ai_digest), the speech rendering retry loop             *)
(* (generate_audio_digest) and the theme analysis (ai_analyze_stories).    *)
(***************************************************************************)
EXTENDS Integers, Sequences, FiniteSets, TLC

(***************************************************************************)
(* Bounds of the model and constants of the program.                       *)
(***************************************************************************)
MaxRetriesBound == 3
\* largest max_retries of the full-run specification
MaxRunRetries == 2
MaxThemes == 2
NumSources == 2
\* stories a source yields in the model, when it yields any
MaxStoriesPerSource == 2
\* bytes carried by one audio chunk of the speech stream
ChunkBytes == 30000
\* github_ai_news_digest.py:941
MinAudioSize == 50000
\* github_ai_news_digest.py:879
MaxDelay == 30

VARIABLES
    pc,                   \* position of the run
    files,                \* the text and the audio artifact on disk
    files0,               \* the files as they were when the run started
    log,                  \* external capability calls, waits and file writes, in order
    cfg,                  \* VOICE_CONFIG['tts_settings']['edge_tts']
    voice_name,           \* self.voice_name
    srcIdx,               \* sources fetched so far
    all_stories,          \* stories collected so far (one entry per story: its source)
    themes,               \* keys of the analysis mapping, in insertion order
    themeIdx,             \* themes synthesized so far
    digest,               \* digest text, as the sequence of its parts
    previous_content,     \* memory of the fragments already emitted
    attempt,              \* loop variable of the retry loop (0-based)
    current_retry_delay,  \* delay the next retry waits
    result,               \* what the run returned
    an_pc,                \* position of ai_analyze_stories
    stories,              \* the NewsStory records handed to ai_analyze_stories
    story_analyses,       \* entries of the current theme of the reply read so far
    an_t,                 \* themes of the reply begun so far
    an_n,                 \* entries of the reply read so far
    an                    \* theme_stories, seen_keywords and the themes mapping

runVars == <<pc, files, files0, log, cfg, voice_name, srcIdx, all_stories, themes,
             themeIdx, digest, previous_content, attempt, current_retry_delay, result>>
anVars == <<an_pc, stories, story_analyses, an_t, an_n, an>>
vars == <<runVars, anVars>>

Min(a, b) == IF a <= b THEN a ELSE b

RECURSIVE SumBytes(_)
SumBytes(s) == IF s = <<>> THEN 0 ELSE Head(s).bytes + SumBytes(Tail(s))

\* os.path.getsize of a file that exists
getsize(f) == SumBytes(f.data)

NoFile == [exists |-> FALSE, data |-> <<>>]
FileWith(d) == [exists |-> TRUE, data |-> d]

\* an audio chunk written by an earlier run (src 0) or by attempt a of this run
OldChunk(n) == [src |-> 0, seq |-> 1, bytes |-> n]
AudioChunk(a, i) == [type |-> "audio", data |-> [src |-> a, seq |-> i, bytes |-> ChunkBytes]]
MetaChunk == [type |-> "WordBoundary", data |-> [src |-> 0, seq |-> 0, bytes |-> 0]]

\* what communicate.stream() delivers before it ends or raises
StreamPrefixes(a) ==
    { <<>>,
      <<AudioChunk(a, 1)>>,
      <<MetaChunk, AudioChunk(a, 1), AudioChunk(a, 2)>> }

(***************************************************************************)
(* Error messages, as the set of the classified substrings they contain.   *)
(***************************************************************************)
NetworkMarkers == {"Network is unreachable", "Cannot connect", "Connection refused", "Temporary failure"}
AuthMarkers == {"401", "authentication", "handshake"}
ErrorMsgs == { {"Connection refused"}, {"handshake"}, {} }

is_network_error(msg) == msg \cap NetworkMarkers # {}
is_auth_error(msg) == msg \cap AuthMarkers # {}
Retryable(msg) == is_network_error(msg) \/ is_auth_error(msg)

(***************************************************************************)
(* Configuration and initial files.                                        *)
(***************************************************************************)
InitialDelays == {1, 10, 31}
Backoffs == {2, 4}
TtsSettings ==
    [max_retries : 0..MaxRetriesBound, initial_retry_delay : InitialDelays,
     retry_backoff_multiplier : Backoffs]
RunTtsSettings ==
    [max_retries : 0..MaxRunRetries, initial_retry_delay : {1},
     retry_backoff_multiplier : {2}]

Voices == {"en-GB-SoniaNeural", "fr-FR-DeniseNeural"}

InitFiles ==
    [text : {NoFile, FileWith(<<"old digest">>)},
     audio : {NoFile, FileWith(<<OldChunk(MinAudioSize)>>), FileWith(<<OldChunk(MinAudioSize + 1)>>)}]


(***************************************************************************)
(* Log events.                                                             *)
(***************************************************************************)
Event(k, o, i) == [kind |-> k, outcome |-> o, info |-> i]
\* opened: the destination was opened for writing; written: the audio chunks the
\* attempt wrote to it
TtsEvent(engine, voice, o, msg, opened, written) ==
    Event("tts", o, [engine |-> engine, voice |-> voice, msg |-> msg, opened |-> opened,
                     written |-> written])
RaiseEvent(from) == Event("raise", "exception", from)

Positions(k) == {i \in 1..Len(log) : log[i].kind = k}

(***************************************************************************)
(* generate_daily_ai_digest: the check for today's files (lines 933-964).  *)
(***************************************************************************)
audio_size(f) == IF f.audio.exists THEN getsize(f.audio) ELSE 0

\* the size in KB compared with the threshold in bytes
ExistingValid_kb(f) ==
    f.text.exists /\ f.audio.exists /\ audio_size(f) \div 1024 > MinAudioSize

ExistingValid(f) ==
    f.text.exists /\ f.audio.exists /\ audio_size(f) > MinAudioSize

ExistingResult(f) ==
    [kind |-> "existing", audio_file |-> "audio", text_file |-> "text",
     regenerated |-> FALSE, size |-> getsize(f.audio)]

check_existing ==
    /\ pc = "check"
    /\ IF ExistingValid(files)
       THEN /\ pc' = "done"
            /\ result' = ExistingResult(files)
       ELSE /\ pc' = "collect"
            /\ UNCHANGED result
    /\ UNCHANGED <<files, files0, log, cfg, voice_name, srcIdx, all_stories, themes,
                   themeIdx, digest, previous_content, attempt, current_retry_delay>>
    /\ UNCHANGED anVars

(***************************************************************************)
(* Collection (lines 966-975): one fetch per source; a source that fails   *)
(* contributes no story.                                                   *)
(***************************************************************************)
\* the exception of a failed fetch leaves the function
SourceFailure_raise(lg, src) ==
    [pc |-> "failed",
     log |-> Append(Append(lg, Event("fetch", "error", [source |-> src, found |-> 0])),
                    RaiseEvent("fetch")),
     stories |-> <<>>,
     result |-> [kind |-> "exception", from |-> "fetch"]]

\* lines 456-458: any exception of the fetch or the parsing is caught, [] is returned
SourceFailure(lg, src) ==
    [pc |-> "collect",
     log |-> Append(lg, Event("fetch", "error", [source |-> src, found |-> 0])),
     stories |-> <<>>,
     result |-> [kind |-> "running"]]

\* lines 968-970: the next source is fetched and its stories are appended
fetch_headlines_from_source ==
    /\ pc = "collect"
    /\ srcIdx < NumSources
    /\ \/ LET f == SourceFailure(log, srcIdx + 1) IN
          /\ pc' = f.pc
          /\ log' = f.log
          /\ all_stories' = all_stories \o f.stories
          /\ result' = f.result
       \/ \E n \in {0, MaxStoriesPerSource} :
          /\ log' = Append(log, Event("fetch", "ok", [source |-> srcIdx + 1, found |-> n]))
          /\ all_stories' = all_stories \o [i \in 1..n |-> srcIdx + 1]
          /\ UNCHANGED <<pc, result>>
    /\ srcIdx' = srcIdx + 1
    /\ UNCHANGED <<files, files0, cfg, voice_name, themes, themeIdx, digest,
                   previous_content, attempt, current_retry_delay>>
    /\ UNCHANGED anVars

\* an empty collection is handed to the analysis like any other
EmptyCollection_continue(sts) == FALSE

\* line 973: if not all_stories
EmptyCollection(sts) == sts = <<>>

collection_done ==
    /\ pc = "collect"
    /\ srcIdx = NumSources
    /\ IF EmptyCollection(all_stories)
       THEN pc' = "done" /\ result' = [kind |-> "none"]
       ELSE pc' = "analyze" /\ UNCHANGED result
    /\ UNCHANGED <<files, files0, log, cfg, voice_name, srcIdx, all_stories, themes,
                   themeIdx, digest, previous_content, attempt, current_retry_delay>>
    /\ UNCHANGED anVars

(***************************************************************************)
(* create_ai_enhanced_digest (lines 709-809), with the analysis reduced to *)
(* its outcome: an exception, or the themes of the mapping.                *)
(***************************************************************************)
AnalysisErrors == {"api_error", "unparsable", "bad_entry"}

\* the keyword classifier called when the analysis fails
AnalysisFailure_fallback(lg, o) ==
    [pc |-> "synthesize",
     log |-> Append(Append(lg, Event("analysis", o, "")), Event("fallback", "returned", "")),
     themes |-> <<1>>, digest |-> <<"opening">>,
     result |-> [kind |-> "running"]]

\* lines 587-590: the exception is raised again, and nothing catches it
AnalysisFailure(lg, o) ==
    [pc |-> "failed",
     log |-> Append(Append(lg, Event("analysis", o, "")), RaiseEvent("analysis")),
     themes |-> <<>>, digest |-> <<>>,
     result |-> [kind |-> "exception", from |-> "analysis"]]

ai_analyze_stories ==
    /\ pc = "analyze"
    /\ \/ \E o \in AnalysisErrors :
            LET f == AnalysisFailure(log, o) IN
            /\ pc' = f.pc
            /\ log' = f.log
            /\ themes' = f.themes
            /\ digest' = f.digest
            /\ result' = f.result
       \/ \E n \in 0..MaxThemes :
            /\ log' = Append(log, Event("analysis", "ok", n))
            /\ themes' = [i \in 1..n |-> i]
            /\ IF n = 0
               THEN digest' = <<"no themes">> /\ pc' = "save_text"
               ELSE digest' = <<"opening">> /\ pc' = "synthesize"
            /\ UNCHANGED result
    /\ UNCHANGED <<files, files0, cfg, voice_name, srcIdx, all_stories, themeIdx,
                   previous_content, attempt, current_retry_delay>>
    /\ UNCHANGED anVars

\* lines 703-706
SynthesisFailure(lg, th, prev) ==
    [pc |-> "failed",
     log |-> Append(Append(lg, Event("synthesis", "error", [theme |-> th, previous |-> prev])),
                    RaiseEvent("synthesis")),
     result |-> [kind |-> "exception", from |-> "synthesis"]]

Fragment(th) == <<"fragment", th>>

ai_synthesize_content ==
    /\ pc = "synthesize"
    /\ themeIdx < Len(themes)
    /\ LET th == themes[themeIdx + 1] IN
       \/ LET f == SynthesisFailure(log, th, previous_content) IN
          /\ pc' = f.pc
          /\ log' = f.log
          /\ result' = f.result
          /\ UNCHANGED <<digest, previous_content>>
       \/ \E reply \in {"", "text"} :
          /\ log' = Append(log, Event("synthesis", "ok",
                                      [theme |-> th, previous |-> previous_content]))
          /\ IF reply = ""
             THEN UNCHANGED <<digest, previous_content>>
             ELSE /\ digest' = Append(digest, Fragment(th))
                  /\ previous_content' = Append(previous_content, Fragment(th))
          /\ UNCHANGED <<pc, result>>
    /\ themeIdx' = themeIdx + 1
    /\ UNCHANGED <<files, files0, cfg, voice_name, srcIdx, all_stories, themes,
                   attempt, current_retry_delay>>
    /\ UNCHANGED anVars

\* lines 768-809: the closing, after the last theme
close_digest ==
    /\ pc = "synthesize"
    /\ themeIdx = Len(themes)
    /\ digest' = Append(digest, "closing")
    /\ pc' = "save_text"
    /\ UNCHANGED <<files, files0, log, cfg, voice_name, srcIdx, all_stories, themes,
                   themeIdx, previous_content, attempt, current_retry_delay, result>>
    /\ UNCHANGED anVars

(***************************************************************************)
(* Lines 986-1000: the text is saved, then the audio is generated.         *)
(***************************************************************************)
save_text ==
    /\ pc = "save_text"
    /\ files' = [files EXCEPT !.text = FileWith(<<"header">> \o digest)]
    /\ log' = Append(log, Event("write_text", "ok", ""))
    /\ pc' = "render"
    /\ attempt' = 0
    /\ current_retry_delay' = cfg.initial_retry_delay
    /\ UNCHANGED <<files0, cfg, voice_name, srcIdx, all_stories, themes, themeIdx,
                   digest, previous_content, result>>
    /\ UNCHANGED anVars

(***************************************************************************)
(* generate_audio_digest (lines 811-922): the retry loop.                  *)
(***************************************************************************)
\* bytes of the chunks of type "audio", in stream order (lines 851-853)
RECURSIVE AudioData(_)
AudioData(chunks) ==
    IF chunks = <<>> THEN <<>>
    ELSE IF Head(chunks).type = "audio"
         THEN <<Head(chunks).data>> \o AudioData(Tail(chunks))
         ELSE AudioData(Tail(chunks))

\* the destination is opened for appending
OpenAndWrite_append(old, chunks) ==
    FileWith((IF old.exists THEN old.data ELSE <<>>) \o AudioData(chunks))

\* lines 850-853: open(output_filename, "wb") empties the file, then the chunks of
\* type "audio" are written as they arrive
OpenAndWrite(old, chunks) == FileWith(AudioData(chunks))

\* the last attempt is retried as well
ShouldRetry_always(msg, att, max) == Retryable(msg)

\* the retry budget is one attempt short
ShouldRetry_short(msg, att, max) == Retryable(msg) /\ att < max - 2

\* line 875
ShouldRetry(msg, att, max) == Retryable(msg) /\ att < max - 1

\* line 879
NextDelay(cur, backoff) == Min(cur * backoff, MaxDelay)

\* a second engine is tried once the first has failed for good
FatalFailure_gtts(lg, voice) ==
    Append(Append(lg, RaiseEvent("tts")), TtsEvent("gTTS", "default", "ok", {}, TRUE, 1))

\* lines 881-893: the exception leaves generate_audio_digest
FatalFailure(lg, voice) == Append(lg, RaiseEvent("tts"))

\* lines 862-893: the handler of a failed attempt
HandleFailure(msg, opened, written) ==
    LET ev == TtsEvent("edge_tts", voice_name, "error", msg, opened, written) IN
    IF ShouldRetry(msg, attempt, cfg.max_retries)
    THEN /\ log' = Append(Append(log, ev), Event("sleep", "ok", current_retry_delay))
         /\ current_retry_delay' = NextDelay(current_retry_delay, cfg.retry_backoff_multiplier)
         /\ attempt' = attempt + 1
         /\ UNCHANGED <<pc, result>>
    ELSE /\ log' = FatalFailure(Append(log, ev), voice_name)
         /\ pc' = "failed"
         /\ result' = [kind |-> "exception", from |-> "tts"]
         /\ UNCHANGED <<attempt, current_retry_delay>>

\* lines 836-893: one iteration of the loop
render_attempt ==
    /\ pc = "render"
    /\ attempt < cfg.max_retries
    /\ \/ \* makedirs, Communicate or open raises: the file is not touched
          /\ \E msg \in ErrorMsgs : HandleFailure(msg, FALSE, 0)
          /\ UNCHANGED files
       \/ \* open(output_filename, "wb") truncates, then the stream is written
          \E pre \in StreamPrefixes(attempt + 1) :
             /\ files' = [files EXCEPT !.audio = OpenAndWrite(files.audio, pre)]
             /\ \/ /\ log' = Append(log, TtsEvent("edge_tts", voice_name, "ok", {}, TRUE,
                                                   Len(AudioData(pre))))
                   /\ pc' = "stats"
                   /\ UNCHANGED <<attempt, current_retry_delay, result>>
                \/ \E msg \in ErrorMsgs : HandleFailure(msg, TRUE, Len(AudioData(pre)))
    /\ UNCHANGED <<files0, cfg, voice_name, srcIdx, all_stories, themes, themeIdx,
                   digest, previous_content>>
    /\ UNCHANGED anVars

\* range(max_retries) is exhausted without a break
render_loop_end ==
    /\ pc = "render"
    /\ attempt >= cfg.max_retries
    /\ pc' = "stats"
    /\ UNCHANGED <<files, files0, log, cfg, voice_name, srcIdx, all_stories, themes,
                   themeIdx, digest, previous_content, attempt, current_retry_delay,
                   result>>
    /\ UNCHANGED anVars

\* lines 895-922 and 1002-1020: the statistics, and the result of the run
render_return ==
    /\ pc = "stats"
    /\ result' = [kind |-> "generated", audio_file |-> "audio", text_file |-> "text",
                  regenerated |-> TRUE, size |-> audio_size(files)]
    /\ pc' = "done"
    /\ UNCHANGED <<files, files0, log, cfg, voice_name, srcIdx, all_stories, themes,
                   themeIdx, digest, previous_content, attempt, current_retry_delay>>
    /\ UNCHANGED anVars

(***************************************************************************)
(* ai_analyze_stories (lines 543-585): the reply applied to the stories.   *)
(* A title is the list title.split() gives; a word of the vocabulary has   *)
(* its len(), isalpha() and lower().                                       *)
(***************************************************************************)
WordLen(w) ==
    CASE w \in {"UK", "up", "in"} -> 2
      [] w \in {"GDP", "the"} -> 3
      [] w \in {"Bank", "4.5%"} -> 4
      [] w \in {"rates", "Rates", "fears"} -> 5
      [] w \in {"raises", "Raises", "rates,"} -> 6
      [] w \in {"inflation"} -> 9

IsAlpha(w) == w \notin {"4.5%", "rates,"}

Lower(w) ==
    CASE w = "Bank" -> "bank"
      [] w = "Rates" -> "rates"
      [] w = "Raises" -> "raises"
      [] w = "UK" -> "uk"
      [] w = "GDP" -> "gdp"
      [] OTHER -> w

\* keyword sets: {bank, raises, rates}, {raises, rates, inflation},
\* {raises, rates, inflation, fears} and {}; the overlap of stories 1 and 2 is
\* 2/4, of 2 and 3 it is 3/4, and of 1 and 3 it is 2/5
Corpus ==
    << <<"Bank", "raises", "rates", "in", "the", "UK">>,
       <<"Raises", "Rates", "inflation", "4.5%">>,
       <<"raises", "rates", "inflation", "fears", "rates,">>,
       <<"UK", "GDP", "up", "4.5%", "the">> >>

ThemeNames == <<"economy", "climate", "health", "politics">>
Significances == {3, 8}

\* an Optional field is <<>> for None and <<v>> for the value v
NewsStory(title, source) ==
    [title |-> title, source |-> source, theme |-> <<>>, significance_score |-> <<>>]

\* lines 558-559
story_keywords(title) ==
    { Lower(title[i]) : i \in {j \in 1..Len(title) : WordLen(title[j]) > 3 /\ IsAlpha(title[j])} }

\* the lower bound is not checked: a negative index counts from the end
InRange_neg(story_idx, n) == story_idx < n

\* line 554
InRange(story_idx, n) == 0 <= story_idx /\ story_idx < n

\* all_stories[story_idx] as the language indexes a list: 1-based position, 0 for IndexError
PyIndex(story_idx, n) ==
    IF 0 <= story_idx /\ story_idx < n THEN story_idx + 1
    ELSE IF -n <= story_idx /\ story_idx < 0 THEN n + story_idx + 1
    ELSE 0

\* github_ai_news_digest.py:562, in tenths
OverlapThresholdTenths == 4

\* the fallback's threshold of 0.5 used here
Overlaps_half(a, b) ==
    10 * Cardinality(a \cap b) > 5 * Cardinality(a \cup b)

\* lines 567-568: overlap > overlap_threshold
Overlaps(a, b) ==
    10 * Cardinality(a \cap b) > OverlapThresholdTenths * Cardinality(a \cup b)

\* lines 565-571
is_duplicate(kw, seen) ==
    \E existing \in seen : existing # {} /\ kw # {} /\ Overlaps(kw, existing)

\* x.significance_score or 0
SortKey(st, i) ==
    IF st[i].significance_score = <<>> THEN 0 ELSE st[i].significance_score[1]

\* list.sort(key, reverse=True): stable, descending
RECURSIVE InsertDesc(_, _, _)
InsertDesc(sorted, i, st) ==
    IF sorted = <<>> THEN <<i>>
    ELSE IF SortKey(st, Head(sorted)) >= SortKey(st, i)
         THEN <<Head(sorted)>> \o InsertDesc(Tail(sorted), i, st)
         ELSE <<i>> \o sorted

RECURSIVE SortDesc(_, _)
SortDesc(s, st) ==
    IF s = <<>> THEN <<>>
    ELSE InsertDesc(SortDesc(SubSeq(s, 1, Len(s) - 1), st), s[Len(s)], st)

AnStart(sts) ==
    [stories |-> sts, theme_stories |-> <<>>, seen_keywords |-> {}, themes |-> <<>>,
     raised |-> FALSE]

\* lines 552-577: one entry of a theme's list
ProcessEntry(a, theme, entry) ==
    LET n == Len(a.stories)
        story_idx == entry.index - 1
    IN  IF ~InRange(story_idx, n) THEN a
        ELSE IF PyIndex(story_idx, n) = 0 THEN [a EXCEPT !.raised = TRUE]
        ELSE LET i == PyIndex(story_idx, n)
                 kw == story_keywords(a.stories[i].title)
             IN  IF is_duplicate(kw, a.seen_keywords) THEN a
                 ELSE [a EXCEPT !.stories[i].theme = <<theme>>,
                                !.stories[i].significance_score = <<entry.significance>>,
                                !.theme_stories = Append(@, i),
                                !.seen_keywords = @ \cup {kw}]

\* lines 545-546: a theme of the reply begins
ThemeBegin(a) == [a EXCEPT !.theme_stories = <<>>, !.seen_keywords = {}]

\* lines 579-582
ThemeEnd(a, theme) ==
    [a EXCEPT !.themes = IF a.theme_stories # <<>>
                         THEN Append(@, [theme |-> theme,
                                         stories |-> SortDesc(a.theme_stories, a.stories)])
                         ELSE @]

\* bounds of the replies the model reads
MaxEntries == 3
MaxReplyThemes == 2

\* an entry of a theme's list, as the loop of line 552 reads it (after the
\* flattening of lines 549-550)
ReplyEntries == [index : -1..(Len(Corpus) + 1), significance : Significances]

\* line 544: the next item of ai_analysis.items()
analyze_theme_begin ==
    /\ an_pc = "themes"
    /\ an_t < MaxReplyThemes
    /\ an_t' = an_t + 1
    /\ story_analyses' = <<>>
    /\ an' = ThemeBegin(an)
    /\ an_pc' = "entries"
    /\ UNCHANGED <<stories, an_n>>
    /\ UNCHANGED runVars

\* lines 552-577: the next entry of the theme's list
analyze_entry ==
    /\ an_pc = "entries"
    /\ an_n < MaxEntries
    /\ \E entry \in ReplyEntries :
          LET a == ProcessEntry(an, ThemeNames[an_t], entry) IN
          /\ story_analyses' = Append(story_analyses, entry)
          /\ an' = a
          /\ an_pc' = IF a.raised THEN "failed" ELSE "entries"
    /\ an_n' = an_n + 1
    /\ UNCHANGED <<stories, an_t>>
    /\ UNCHANGED runVars

\* lines 579-583: the theme's list is exhausted
analyze_theme_end ==
    /\ an_pc = "entries"
    /\ an' = ThemeEnd(an, ThemeNames[an_t])
    /\ an_pc' = "themes"
    /\ UNCHANGED <<stories, story_analyses, an_t, an_n>>
    /\ UNCHANGED runVars

\* line 585: the reply has no further theme
analyze_return ==
    /\ an_pc = "themes"
    /\ an_pc' = "returned"
    /\ UNCHANGED <<stories, story_analyses, an_t, an_n, an>>
    /\ UNCHANGED runVars

(***************************************************************************)
(* create_ai_enhanced_digest (lines 709-809) on the text itself: a text is *)
(* the sequence of its characters.                                         *)
(***************************************************************************)
Space == " "
Comma == ","
Newline == "\n"
EmDash == "em-dash"
EnDash == "en-dash"

\* the characters str.strip() removes and \s matches
Whitespace == {Space, Newline}

RECURSIVE lstrip(_)
lstrip(t) ==
    IF t # <<>> /\ Head(t) \in Whitespace THEN lstrip(Tail(t)) ELSE t

RECURSIVE rstrip(_)
rstrip(t) ==
    IF t # <<>> /\ t[Len(t)] \in Whitespace THEN rstrip(SubSeq(t, 1, Len(t) - 1)) ELSE t

strip(t) == lstrip(rstrip(t))

StartsWith(t, pat) == Len(t) >= Len(pat) /\ SubSeq(t, 1, Len(pat)) = pat

\* re.sub of a literal pattern: the matches are found from left to right and do
\* not overlap, and the replacement is not scanned again
RECURSIVE Sub(_, _, _)
Sub(pat, repl, t) ==
    IF t = <<>> THEN <<>>
    ELSE IF StartsWith(t, pat)
         THEN repl \o Sub(pat, repl, SubSeq(t, Len(pat) + 1, Len(t)))
         ELSE <<Head(t)>> \o Sub(pat, repl, Tail(t))

RECURSIVE lstripSpaces(_)
lstripSpaces(t) ==
    IF t # <<>> /\ Head(t) = Space THEN lstripSpaces(Tail(t)) ELSE t

\* re.sub(r' +', ' ', t)
RECURSIVE CollapseSpaces(_)
CollapseSpaces(t) ==
    IF t = <<>> THEN <<>>
    ELSE IF Head(t) = Space
         THEN <<Space>> \o CollapseSpaces(lstripSpaces(Tail(t)))
         ELSE <<Head(t)>> \o CollapseSpaces(Tail(t))

\* re.sub(r',([^\s])', r', \1', t): the character after the comma is consumed
RECURSIVE SpaceAfterComma(_)
SpaceAfterComma(t) ==
    IF t = <<>> THEN <<>>
    ELSE IF Head(t) = Comma /\ Len(t) >= 2 /\ t[2] \notin Whitespace
         THEN <<Comma, Space, t[2]>> \o SpaceAfterComma(SubSeq(t, 3, Len(t)))
         ELSE <<Head(t)>> \o SpaceAfterComma(Tail(t))

\* lines 796-807, in the order of the code
Normalize(t) ==
    LET t1 == Sub(<<EmDash>>, <<Comma, Space>>, t)
        t2 == Sub(<<EnDash>>, <<Comma, Space>>, t1)
        t3 == CollapseSpaces(t2)
        t4 == Sub(<<Comma, Space, Comma>>, <<Comma>>, t3)
        t5 == Sub(<<Comma, Comma>>, <<Comma>>, t4)
        t6 == Sub(<<Space, Comma>>, <<Comma>>, t5)
    IN  SpaceAfterComma(t6)

\* lines 751-756: strip, newlines to spaces, runs of spaces to one
CleanFragment(theme_content) ==
    CollapseSpaces(Sub(<<Newline>>, <<Space>>, strip(theme_content)))

\* lines 760-764
AppendFragment(d, theme_content) ==
    LET d1 == rstrip(d)
        d2 == IF d1 # <<>> /\ d1[Len(d1)] # Space THEN d1 \o <<Space>> ELSE d1
    IN  d2 \o theme_content

\* the memory holds the latest fragment only
Remember_latest(prev, theme, theme_content) ==
    <<[theme |-> theme, content |-> theme_content]>>

\* line 766: previous_content += f"\n[{theme}]: {theme_content}"
Remember(prev, theme, theme_content) ==
    Append(prev, [theme |-> theme, content |-> theme_content])

\* the fragment is appended to the digest and not remembered
SynthesisStep_forget(d, prev, theme, reply) ==
    LET tc == CleanFragment(strip(reply)) IN
    [digest |-> IF tc = <<>> THEN d ELSE AppendFragment(d, tc), previous_content |-> prev]

\* an empty reply is appended and remembered like any other
SynthesisStep_blank(d, prev, theme, reply) ==
    LET tc == CleanFragment(strip(reply)) IN
    [digest |-> AppendFragment(d, tc), previous_content |-> Remember(prev, theme, tc)]

\* lines 701 and 749-766: what a reply of the synthesis adds
SynthesisStep(d, prev, theme, reply) ==
    LET theme_content == strip(reply) IN
    IF theme_content = <<>> THEN [digest |-> d, previous_content |-> prev]
    ELSE LET tc == CleanFragment(theme_content) IN
         IF tc = <<>> THEN [digest |-> d, previous_content |-> prev]
         ELSE [digest |-> AppendFragment(d, tc),
               previous_content |-> Remember(prev, theme, tc)]

\* lines 640-658: the arguments the template is formatted with; a headline line
\* is f"- {story.title}"
get_synthesis_prompt(theme, sts, prev) ==
    [theme |-> theme,
     headlines |-> [i \in 1..Min(3, Len(sts)) |-> [title |-> sts[i].title]],
     previous_context |-> prev]

\* line 719, and the opening and closing texts of lines 731-742 and 769-792: an
\* English opening ends with its full stop, the others with a space; every
\* closing begins with a space
NoThemesText == <<"N", ".">>
Openings == { <<"O", ".">>, <<"O", ".", Space>> }
Closing == <<Space, "C", ".">>

\* the stories of the buckets, and the mappings the analysis hands over
HeadlineWords == <<"one", "two", "three", "four", "five", "six">>

StoryPool ==
    [i \in 1..6 |->
        [NewsStory(<<"headline", HeadlineWords[i]>>,
                   IF i % 2 = 0 THEN "BBC News" ELSE "Guardian")
            EXCEPT !.significance_score = IF i = 6 THEN <<>> ELSE <<10 - i>>]]

Bucket(theme, n) == [theme |-> theme, stories |-> SubSeq(StoryPool, 1, n)]

AllBuckets ==
    << Bucket("economy", 4), Bucket("climate", 1), Bucket("health", 6),
       Bucket("politics", 2) >>

\* largest number of themes of a mapping
MaxDigestThemes == 3

\* replies of the synthesis capability
Replies ==
    { <<>>, <<Space>>, <<Newline>>, <<"a">>, <<Space, "a", Newline>>,
      <<"a", Newline, "b">>, <<"a", Space, Space, "b">>, <<Comma, "a">>,
      <<EmDash, "a">>, <<"a", EnDash>>, <<"a", Comma, Comma, Comma, "b">>,
      <<EmDash>> }

\* lines 718-745
begin_digest ==
    /\ pc = "digest_start"
    /\ IF themes = <<>>
       THEN /\ digest' = NoThemesText
            /\ pc' = "returned"
            /\ UNCHANGED log
       ELSE \E opening \in Openings :
               /\ digest' = opening
               /\ log' = Append(log, Event("opening", "ok", opening))
               /\ pc' = "fragments"
    /\ previous_content' = <<>>
    /\ UNCHANGED <<files, files0, cfg, voice_name, srcIdx, all_stories, themes,
                   themeIdx, attempt, current_retry_delay, result>>
    /\ UNCHANGED anVars

\* lines 746-766: the next theme of the mapping
synthesize_theme ==
    /\ pc = "fragments"
    /\ themeIdx < Len(themes)
    /\ LET b == themes[themeIdx + 1]
           prompt == get_synthesis_prompt(b.theme, b.stories, previous_content)
       IN  \/ LET f == SynthesisFailure(log, b.theme, previous_content) IN
              /\ pc' = f.pc
              /\ log' = f.log
              /\ result' = f.result
              /\ UNCHANGED <<digest, previous_content>>
           \/ \E reply \in Replies :
              LET r == SynthesisStep(digest, previous_content, b.theme, reply) IN
              /\ log' = Append(log, Event("synthesis", "ok",
                                          [theme |-> b.theme, prompt |-> prompt,
                                           reply |-> reply]))
              /\ digest' = r.digest
              /\ previous_content' = r.previous_content
              /\ UNCHANGED <<pc, result>>
    /\ themeIdx' = themeIdx + 1
    /\ UNCHANGED <<files, files0, cfg, voice_name, srcIdx, all_stories, themes,
                   attempt, current_retry_delay>>
    /\ UNCHANGED anVars

\* lines 768-809: the closing and the final normalization
finish_digest ==
    /\ pc = "fragments"
    /\ themeIdx = Len(themes)
    /\ digest' = Normalize(digest \o Closing)
    /\ pc' = "returned"
    /\ UNCHANGED <<files, files0, log, cfg, voice_name, srcIdx, all_stories, themes,
                   themeIdx, previous_content, attempt, current_retry_delay, result>>
    /\ UNCHANGED anVars

\* lines 796-807 applied to a text
final_normalization ==
    /\ pc = "normalize"
    /\ log' = Append(log, Event("normalize", "ok", digest))
    /\ digest' = Normalize(digest)
    /\ pc' = "returned"
    /\ UNCHANGED <<files, files0, cfg, voice_name, srcIdx, all_stories, themes,
                   themeIdx, previous_content, attempt, current_retry_delay, result>>
    /\ UNCHANGED anVars

(***************************************************************************)
(* fetch_headlines_from_source (lines 412-454): the extraction of the      *)
(* stories from the markup. The markup is, for every selector, the texts   *)
(* of the elements it matches; a text is known by its length, by whether   *)
(* it begins with a boilerplate word, and by its wording.                  *)
(***************************************************************************)
\* lines 422-423
MinTitleLen == 15
MaxTitleLen == 200
\* line 419: elements[:15]
ElementCap == 15
\* line 447
StoryCap == 12

\* the first selectors of base_selectors (lines 306-308), in their listed order
Selectors == <<"h1, h2, h3", "[data-testid*=headline]">>

\* largest number of elements a selector matches in the model
MaxElements == 2

TextLens == {0, MinTitleLen, MinTitleLen + 1, MaxTitleLen - 1, MaxTitleLen}
TextItems ==
    {[len |-> n, boiler |-> FALSE] : n \in TextLens}
       \cup {[len |-> MinTitleLen + 1, boiler |-> TRUE]}

ElementLists == UNION {[1..n -> TextItems] : n \in 0..MaxElements}
Markups == [1..Len(Selectors) -> ElementLists]

Titles(sts) == {sts[i].title : i \in 1..Len(sts)}

\* lines 421-425
Keep(text, seen_headlines) ==
    /\ text.len > 0
    /\ text.len > MinTitleLen
    /\ text.len < MaxTitleLen
    /\ text \notin seen_headlines
    /\ ~text.boiler

\* lines 419-448: the elements of one selector, from the first on
RECURSIVE ScanElements(_, _, _)
ScanElements(elements, sts, source) ==
    IF elements = <<>> THEN sts
    ELSE IF Keep(Head(elements), Titles(sts))
         THEN LET more == Append(sts, NewsStory(Head(elements), source)) IN
              IF Len(more) >= StoryCap THEN more
              ELSE ScanElements(Tail(elements), more, source)
         ELSE ScanElements(Tail(elements), sts, source)

\* lines 450-451: if stories: break
StopAfter(elements, sts) == sts # <<>>

\* lines 417-451: the selectors from the k-th on; selects lists the selectors
\* handed to soup.select
RECURSIVE ScanSelectors(_, _, _)
ScanSelectors(m, k, source) ==
    IF k > Len(Selectors) THEN [stories |-> <<>>, selects |-> <<>>]
    ELSE LET elements == SubSeq(m[k], 1, Min(ElementCap, Len(m[k])))
             sts == ScanElements(elements, <<>>, source)
         IN  IF StopAfter(elements, sts) THEN [stories |-> sts, selects |-> <<k>>]
             ELSE LET rest == ScanSelectors(m, k + 1, source) IN
                  [stories |-> rest.stories, selects |-> <<k>> \o rest.selects]

\* lines 404-454 for a page that was fetched and parsed
extract_headlines ==
    /\ pc = "extract"
    /\ \E m \in Markups :
          LET r == ScanSelectors(m, 1, "BBC News") IN
          /\ stories' = r.stories
          /\ log' = <<Event("markup", "ok", m)>>
                       \o [i \in 1..Len(r.selects) |-> Event("select", "ok", r.selects[i])]
    /\ pc' = "extracted"
    /\ UNCHANGED <<files, files0, cfg, voice_name, srcIdx, all_stories, themes, themeIdx,
                   digest, previous_content, attempt, current_retry_delay, result>>
    /\ UNCHANGED <<an_pc, story_analyses, an_t, an_n, an>>

(***************************************************************************)
(* Specifications.                                                         *)
(***************************************************************************)
Init ==
    /\ pc = "check"
    /\ files \in InitFiles
    /\ files0 = files
    /\ log = <<>>
    /\ cfg \in RunTtsSettings
    /\ voice_name = "en-GB-SoniaNeural"
    /\ srcIdx = 0
    /\ all_stories = <<>>
    /\ themes = <<>>
    /\ themeIdx = 0
    /\ digest = <<>>
    /\ previous_content = <<>>
    /\ attempt = 0
    /\ current_retry_delay = 0
    /\ result = [kind |-> "running"]
    /\ an_pc = "idle"
    /\ stories = <<>>
    /\ story_analyses = <<>>
    /\ an_t = 0
    /\ an_n = 0
    /\ an = AnStart(<<>>)

NextRender == render_attempt \/ render_loop_end \/ render_return

Next ==
    \/ check_existing
    \/ fetch_headlines_from_source
    \/ collection_done
    \/ ai_analyze_stories
    \/ ai_synthesize_content
    \/ close_digest
    \/ save_text
    \/ NextRender

Spec == Init /\ [][Next]_vars

\* generate_audio_digest called on its own, with every setting
InitRender ==
    /\ pc = "render"
    /\ files \in [text : {FileWith(<<"header", "opening", "closing">>)},
                  audio : {NoFile, FileWith(<<OldChunk(MinAudioSize + 1)>>)}]
    /\ files0 = files
    /\ log = <<>>
    /\ cfg \in TtsSettings
    /\ voice_name \in Voices
    /\ srcIdx = NumSources
    /\ all_stories = <<1>>
    /\ themes = <<>>
    /\ themeIdx = 0
    /\ digest = <<"opening", "closing">>
    /\ previous_content = <<>>
    /\ attempt = 0
    /\ current_retry_delay = cfg.initial_retry_delay
    /\ result = [kind |-> "running"]
    /\ an_pc = "idle"
    /\ stories = <<>>
    /\ story_analyses = <<>>
    /\ an_t = 0
    /\ an_n = 0
    /\ an = AnStart(<<>>)

SpecRender == InitRender /\ [][NextRender]_vars

(***************************************************************************)
(* ai_analyze_stories on its own: the stories of the corpus, and a reply   *)
(* of at most MaxReplyThemes themes and MaxEntries entries read item by    *)
(* item.                                                                   *)
(***************************************************************************)
InitAnalyze ==
    /\ pc = "analyze"
    /\ files = [text |-> NoFile, audio |-> NoFile]
    /\ files0 = files
    /\ log = <<>>
    /\ cfg \in {c \in RunTtsSettings : c.max_retries = 1}
    /\ voice_name = "en-GB-SoniaNeural"
    /\ srcIdx = NumSources
    /\ all_stories = [i \in 1..Len(Corpus) |-> 1]
    /\ themes = <<>>
    /\ themeIdx = 0
    /\ digest = <<>>
    /\ previous_content = <<>>
    /\ attempt = 0
    /\ current_retry_delay = 0
    /\ result = [kind |-> "running"]
    /\ an_pc = "themes"
    /\ stories = [i \in 1..Len(Corpus) |-> NewsStory(Corpus[i], "BBC News")]
    /\ story_analyses = <<>>
    /\ an_t = 0
    /\ an_n = 0
    /\ an = AnStart(stories)

NextAnalyze ==
    analyze_theme_begin \/ analyze_entry \/ analyze_theme_end \/ analyze_return

SpecAnalyze == InitAnalyze /\ [][NextAnalyze]_vars

(***************************************************************************)
(* create_ai_enhanced_digest after the analysis, for every mapping of at   *)
(* most MaxDigestThemes themes.                                            *)
(***************************************************************************)
InitDigest ==
    /\ pc = "digest_start"
    /\ files = [text |-> NoFile, audio |-> NoFile]
    /\ files0 = files
    /\ log = <<>>
    /\ cfg \in {c \in RunTtsSettings : c.max_retries = 1}
    /\ voice_name = "en-GB-SoniaNeural"
    /\ srcIdx = NumSources
    /\ all_stories = <<1>>
    /\ themes \in {SubSeq(AllBuckets, 1, n) : n \in 0..MaxDigestThemes}
    /\ themeIdx = 0
    /\ digest = <<>>
    /\ previous_content = <<>>
    /\ attempt = 0
    /\ current_retry_delay = 0
    /\ result = [kind |-> "running"]
    /\ an_pc = "idle"
    /\ stories = StoryPool
    /\ story_analyses = <<>>
    /\ an_t = 0
    /\ an_n = 0
    /\ an = AnStart(<<>>)

NextDigest == begin_digest \/ synthesize_theme \/ finish_digest

SpecDigest == InitDigest /\ [][NextDigest]_vars

(***************************************************************************)
(* The final normalization on its own, for every text of at most           *)
(* MaxTextLen characters.                                                  *)
(***************************************************************************)
MaxTextLen == 4
TextAlphabet == {"a", Comma, Space, EmDash, EnDash}
Texts == UNION {[1..n -> TextAlphabet] : n \in 0..MaxTextLen}

InitNormalize ==
    /\ pc = "normalize"
    /\ files = [text |-> NoFile, audio |-> NoFile]
    /\ files0 = files
    /\ log = <<>>
    /\ cfg \in {c \in RunTtsSettings : c.max_retries = 1}
    /\ voice_name = "en-GB-SoniaNeural"
    /\ srcIdx = NumSources
    /\ all_stories = <<1>>
    /\ themes = <<>>
    /\ themeIdx = 0
    /\ digest \in Texts
    /\ previous_content = <<>>
    /\ attempt = 0
    /\ current_retry_delay = 0
    /\ result = [kind |-> "running"]
    /\ an_pc = "idle"
    /\ stories = <<>>
    /\ story_analyses = <<>>
    /\ an_t = 0
    /\ an_n = 0
    /\ an = AnStart(<<>>)

NextNormalize == final_normalization

SpecNormalize == InitNormalize /\ [][NextNormalize]_vars

(***************************************************************************)
(* Consecutive runs for one locale and date: every run is a new process    *)
(* (main, lines 1038-1044) that finds the files the runs before it left.   *)
(* The first run finds no file of the day.                                 *)
(***************************************************************************)
MaxRuns == 2

\* the log of a later run begins with the record of the runs before it
RunNumber == IF log # <<>> /\ log[1].kind = "run" THEN log[1].info.number ELSE 1
EarlierCompleted == log # <<>> /\ log[1].kind = "run" /\ log[1].info.completed

next_run ==
    /\ pc \in {"done", "failed"}
    /\ RunNumber < MaxRuns
    /\ log' = <<Event("run", result.kind,
                      [number |-> RunNumber + 1,
                       completed |-> EarlierCompleted \/ result.kind = "generated"])>>
    /\ pc' = "check"
    /\ files0' = files
    /\ srcIdx' = 0
    /\ all_stories' = <<>>
    /\ themes' = <<>>
    /\ themeIdx' = 0
    /\ digest' = <<>>
    /\ previous_content' = <<>>
    /\ attempt' = 0
    /\ current_retry_delay' = 0
    /\ result' = [kind |-> "running"]
    /\ UNCHANGED <<files, cfg, voice_name>>
    /\ UNCHANGED anVars

InitRuns ==
    /\ Init
    /\ files = [text |-> NoFile, audio |-> NoFile]

NextRuns == Next \/ next_run

SpecRuns == InitRuns /\ [][NextRuns]_vars

(***************************************************************************)
(* The extraction on its own, for every markup of Markups.                 *)
(***************************************************************************)
InitCollect ==
    /\ pc = "extract"
    /\ files = [text |-> NoFile, audio |-> NoFile]
    /\ files0 = files
    /\ log = <<>>
    /\ cfg \in {c \in RunTtsSettings : c.max_retries = 1}
    /\ voice_name = "en-GB-SoniaNeural"
    /\ srcIdx = 0
    /\ all_stories = <<>>
    /\ themes = <<>>
    /\ themeIdx = 0
    /\ digest = <<>>
    /\ previous_content = <<>>
    /\ attempt = 0
    /\ current_retry_delay = 0
    /\ result = [kind |-> "running"]
    /\ an_pc = "idle"
    /\ stories = <<>>
    /\ story_analyses = <<>>
    /\ an_t = 0
    /\ an_n = 0
    /\ an = AnStart(<<>>)

NextCollect == extract_headlines

SpecCollect == InitCollect /\ [][NextCollect]_vars

(***************************************************************************)
(* Properties.                                                             *)
(***************************************************************************)
IsTts(e) == e.kind = "tts"
IsSleep(e) == e.kind = "sleep"
TtsSeq == SelectSeq(log, IsTts)
Sleeps == SelectSeq(log, IsSleep)

AllRetryable(t, k) ==
    \A j \in 1..k : t[j].outcome = "error" /\ Retryable(t[j].info.msg)

RECURSIVE Pow(_, _)
Pow(b, e) == IF e = 0 THEN 1 ELSE b * Pow(b, e - 1)

StartedWithValidArtifacts ==
    /\ files0.text.exists
    /\ files0.audio.exists
    /\ getsize(files0.audio) > MinAudioSize

\* C1: when the text and the audio artifact exist at the start of the run and the
\* audio artifact is larger than 50,000 bytes, the run calls no external
\* capability, writes no file, and returns the existing artifacts' paths and size
\* marked as not regenerated.
C1_ShortCircuit ==
    StartedWithValidArtifacts =>
        /\ log = <<>>
        /\ files = files0
        /\ pc \in {"check", "done"}
        /\ pc = "done" =>
              result = [kind |-> "existing", audio_file |-> "audio", text_file |-> "text",
                        regenerated |-> FALSE, size |-> getsize(files0.audio)]

C1_Witness ==
    /\ StartedWithValidArtifacts
    /\ pc = "done"
    /\ result.kind = "existing"

\* C2: a run that ends in failure leaves the files on disk exactly as they were at
\* the start of the run.
C2_FailedRunLeavesFiles ==
    pc = "failed" => files = files0

\* C3: every synthesis attempt of a call uses the same engine and the configured
\* voice; once an attempt fails with a non-retryable error or on the last allowed
\* attempt, the call raises and nothing follows the raise: no attempt with another
\* engine or voice.
C3_NoFallbackEngine ==
    LET t == TtsSeq IN
    /\ \A i \in 1..Len(t) :
          /\ t[i].info.engine = "edge_tts"
          /\ t[i].info.voice = voice_name
    /\ \A i \in 1..Len(log) :
          log[i].kind = "raise" => (i = Len(log) /\ pc = "failed")
    /\ \A i \in 1..Len(t) :
          (t[i].outcome = "error" /\ (~Retryable(t[i].info.msg) \/ i >= cfg.max_retries))
             => (i = Len(t) /\ pc = "failed" /\ log[Len(log)].kind = "raise")

C3_Witness ==
    /\ pc = "failed"
    /\ Len(TtsSeq) >= 2
    /\ Len(TtsSeq) < cfg.max_retries

\* C4: when the first k-1 attempts fail with a retryable error and attempt k
\* succeeds (1 <= k <= max_retries), the call makes exactly k attempts, waits
\* exactly k-1 times, does not raise, and the audio artifact exists; while only
\* retryable failures have occurred and attempts are left, the call goes on.
C4_RetryThenSuccess ==
    LET t == TtsSeq IN
    /\ \A k \in 1..cfg.max_retries :
          (Len(t) >= k /\ t[k].outcome = "ok" /\ AllRetryable(t, k - 1))
             => /\ Len(t) = k
                /\ Len(Sleeps) = k - 1
                /\ pc \in {"stats", "done"}
                /\ Positions("raise") = {}
                /\ files.audio.exists
    /\ \A j \in 0..(cfg.max_retries - 1) :
          (Len(t) = j /\ AllRetryable(t, j))
             => (pc = "render" /\ attempt = j /\ Len(Sleeps) = j)

C4_Witness ==
    /\ pc = "done"
    /\ Len(TtsSeq) = cfg.max_retries
    /\ Len(TtsSeq) >= 3
    /\ TtsSeq[Len(TtsSeq)].outcome = "ok"
    /\ Len(Sleeps) = Len(TtsSeq) - 1
    /\ files.audio.exists

\* C5: the delay waited before the j-th retry is
\* min(initial_retry_delay * retry_backoff_multiplier^(j-1), 30), so no delay
\* exceeds 30.
C5_DelaySchedule ==
    \A j \in 1..Len(Sleeps) :
        Sleeps[j].info =
            Min(cfg.initial_retry_delay * Pow(cfg.retry_backoff_multiplier, j - 1), MaxDelay)

\* C6: a call never makes more than max_retries attempts; a non-retryable failure
\* ends it at once with a fatal failure, without a delay or a further attempt; and
\* retryable failures on every attempt end it with a fatal failure after exactly
\* max_retries attempts and max_retries-1 delays.
C6_BoundedAttempts ==
    LET t == TtsSeq IN
    /\ Len(t) <= cfg.max_retries
    /\ \A i \in 1..Len(t) :
          (t[i].outcome = "error" /\ ~Retryable(t[i].info.msg))
             => /\ i = Len(t)
                /\ pc = "failed"
                /\ Len(Sleeps) = i - 1
                /\ log[Len(log)].kind = "raise"
                /\ log[Len(log) - 1].kind = "tts"
    /\ (cfg.max_retries >= 1 /\ Len(t) = cfg.max_retries /\ AllRetryable(t, Len(t)))
          => (pc = "failed" /\ Len(Sleeps) = cfg.max_retries - 1)

C6_Witness ==
    /\ pc = "failed"
    /\ cfg.max_retries >= 3
    /\ Len(TtsSeq) = cfg.max_retries
    /\ AllRetryable(TtsSeq, Len(TtsSeq))

\* C7: when every attempt raises a non-retryable error, no file exists at the
\* destination after the failed call that did not exist before it.
C7_NoFileCreatedOnFailure ==
    (/\ pc = "failed"
     /\ \A i \in 1..Len(TtsSeq) :
           TtsSeq[i].outcome = "error" /\ ~Retryable(TtsSeq[i].info.msg))
        => (files.audio.exists => files0.audio.exists)

\* C8: when the analysis call fails, its reply cannot be parsed, or a synthesis
\* call fails, the exception leaves the run, the keyword classifier is not
\* called, nothing is called afterwards, and neither artifact is written.
C8_FailurePropagates ==
    /\ \A i \in 1..Len(log) :
          (log[i].kind \in {"analysis", "synthesis"} /\ log[i].outcome # "ok")
             => /\ pc = "failed"
                /\ result.kind = "exception"
                /\ Len(log) = i + 1
                /\ log[i + 1].kind = "raise"
                /\ files = files0
                /\ \A j \in 1..Len(log) : log[j].kind \notin {"write_text", "tts"}
    /\ Positions("fallback") = {}

C8_Witness ==
    /\ pc = "failed"
    /\ \E i \in 1..Len(log) : log[i].kind = "analysis" /\ log[i].outcome = "unparsable"
    /\ files = files0

Last(s) == s[Len(s)]
Range(s) == {s[i] : i \in 1..Len(s)}

\* C9: an entry of the reply whose index lies outside [1, number of stories] is
\* dropped: it raises nothing and changes nothing of the analysis, so the entries
\* that follow are accepted as without it; an accepted story is the one an
\* in-range index of the theme names, and a bucket holds only such stories.
C9_OutOfRangeDropped ==
    [][ /\ (an_pc = "entries" /\ an_n' = an_n + 1) =>
             LET entry == Last(story_analyses') IN
             IF entry.index \in 1..Len(stories)
             THEN /\ an_pc' = "entries"
                  /\ an'.theme_stories \in
                        {an.theme_stories, Append(an.theme_stories, entry.index)}
             ELSE an_pc' = "entries" /\ an' = an
        /\ (an_pc = "entries" /\ an_pc' = "themes") =>
             \/ an'.themes = an.themes /\ an.theme_stories = <<>>
             \/ /\ Len(an'.themes) = Len(an.themes) + 1
                /\ Range(Last(an'.themes).stories) = Range(an.theme_stories)
                /\ Range(an.theme_stories) \subseteq
                      {story_analyses[j].index : j \in 1..Len(story_analyses)}
                         \cap (1..Len(stories))
      ]_vars

C9_Witness ==
    /\ an_pc = "returned"
    /\ Len(story_analyses) = 3
    /\ story_analyses[1].index <= 0
    /\ story_analyses[2].index \in 1..Len(stories)
    /\ story_analyses[3].index > Len(stories)
    /\ an.themes # <<>>
    /\ Last(an.themes).stories = <<story_analyses[2].index>>

Keywords(a, i) == story_keywords(a.stories[i].title)

\* C10: in the mapping returned, the keyword sets of two stories at distinct
\* positions of a bucket never overlap by more than 0.4
\* (|A \cap B| / |A \cup B| <= 2/5).
C10_BucketOverlapBounded ==
    \A b \in 1..Len(an.themes) :
        LET s == an.themes[b].stories IN
        \A i, j \in 1..Len(s) :
            i # j =>
               5 * Cardinality(Keywords(an, s[i]) \cap Keywords(an, s[j]))
                  <= 2 * Cardinality(Keywords(an, s[i]) \cup Keywords(an, s[j]))

C10_Witness ==
    /\ an_pc = "returned"
    /\ Len(story_analyses) = 3
    /\ story_analyses[1].index = 1
    /\ story_analyses[2].index = 2
    /\ story_analyses[3].index = 3
    /\ an.themes # <<>>
    /\ Range(Last(an.themes).stories) = {1, 3}

\* two keyword sets the deduplication takes for the same story
Duplicates(a, b) == a # {} /\ b # {} /\ Overlaps(a, b)

\* positions of the entries of the current theme whose index names a story
InRangeEntries ==
    {j \in 1..Len(story_analyses) : story_analyses[j].index \in 1..Len(stories)}

\* C11: of the stories the reply assigns to one theme whose keyword sets overlap
\* by more than 0.4, the bucket keeps exactly one: no two kept stories overlap, a
\* story that was not kept overlaps a kept one that the reply listed before it,
\* and the kept story has the highest significance the reply gives to a story of
\* its cluster.
C11_FirstSeenIsHighest ==
    an_pc = "entries" =>
        LET kept == Range(an.theme_stories) IN
        /\ \A r1, r2 \in kept :
              r1 # r2 => ~Duplicates(Keywords(an, r1), Keywords(an, r2))
        /\ \A j \in InRangeEntries :
              LET i == story_analyses[j].index IN
              i \notin kept =>
                 \E k \in 1..(j - 1) :
                    /\ story_analyses[k].index \in kept
                    /\ Duplicates(Keywords(an, i), Keywords(an, story_analyses[k].index))
        /\ \A j \in InRangeEntries : \A r \in kept :
              LET i == story_analyses[j].index IN
              (i # r /\ Duplicates(Keywords(an, i), Keywords(an, r)))
                 => story_analyses[j].significance <= SortKey(an.stories, r)

\* C12: in the mapping returned, every bucket is in descending order of the
\* significance its stories carry at return time (None counts as 0).
C12_BucketsDescending ==
    an_pc = "returned" =>
        \A b \in 1..Len(an.themes) :
            LET s == an.themes[b].stories IN
            \A i \in 1..(Len(s) - 1) :
                SortKey(an.stories, s[i]) >= SortKey(an.stories, s[i + 1])

\* C19: during a call of ai_analyze_stories the theme and the significance of a
\* story are written at most once: a story that has them keeps them.
C19_WrittenOnce ==
    [][ \A i \in 1..Len(an.stories) :
           (i <= Len(an'.stories) /\ an.stories[i].theme # <<>>)
              => an'.stories[i] = an.stories[i] ]_vars

IsFetch(e) == e.kind = "fetch"
Fetches == SelectSeq(log, IsFetch)

\* the stories the fetches of f returned, in the order of the fetches
RECURSIVE Collected(_)
Collected(f) ==
    IF f = <<>> THEN <<>>
    ELSE Collected(SubSeq(f, 1, Len(f) - 1))
            \o [i \in 1..(IF Last(f).outcome = "ok" THEN Last(f).info.found ELSE 0)
                  |-> Last(f).info.source]

\* C16: a fetch never raises; a source whose fetch or parsing fails yields no
\* story, the sources after it are still fetched, in source order, and the run
\* goes on, so the collected list is the concatenation, in source order, of what
\* each source returned.
C16_FetchNeverRaises ==
    /\ \A i \in 1..Len(log) : log[i].kind = "raise" => log[i].info # "fetch"
    /\ \A i \in 1..Len(Fetches) : Fetches[i].info.source = i
    /\ Len(Fetches) = srcIdx
    /\ all_stories = Collected(Fetches)
    /\ (pc = "collect" /\ srcIdx < NumSources) => ENABLED fetch_headlines_from_source
    /\ pc \notin {"check", "collect"} =>
          \/ srcIdx = NumSources
          \/ srcIdx = 0 /\ result.kind = "existing"

C16_Witness ==
    /\ pc = "done"
    /\ result.kind = "generated"
    /\ Len(Fetches) = NumSources
    /\ Fetches[1].outcome = "error"
    /\ Fetches[NumSources].outcome = "ok"
    /\ all_stories = [i \in 1..MaxStoriesPerSource |-> NumSources]

IsSynthesis(e) == e.kind = "synthesis"
Syntheses == SelectSeq(log, IsSynthesis)

IsPrefix(a, b) == Len(a) <= Len(b) /\ SubSeq(b, 1, Len(a)) = a

\* what a synthesis call was given as the text covered before it
PreviousOf(e) == IF e.outcome = "ok" THEN e.info.prompt.previous_context ELSE e.info.previous

\* the fragments the calls of f emitted, with their themes, in the order of the calls
RECURSIVE Emitted(_)
Emitted(f) ==
    IF f = <<>> THEN <<>>
    ELSE LET e == f[Len(f)]
             before == Emitted(SubSeq(f, 1, Len(f) - 1))
         IN  IF e.outcome = "ok" /\ CleanFragment(strip(e.info.reply)) # <<>>
             THEN Append(before, [theme |-> e.info.theme,
                                  content |-> CleanFragment(strip(e.info.reply))])
             ELSE before

\* C13: the themes are synthesized one at a time in the insertion order of the
\* mapping; the prompt of the i-th call carries the fragment emitted for every
\* earlier theme, in processing order; and the memory only grows by appending: its
\* value before a step is a prefix of its value after.
C13_MemoryAppendOnly ==
    /\ [](/\ Len(Syntheses) = (IF pc = "digest_start" THEN 0 ELSE themeIdx)
          /\ \A i \in 1..Len(Syntheses) :
                /\ Syntheses[i].info.theme = themes[i].theme
                /\ PreviousOf(Syntheses[i]) = Emitted(SubSeq(Syntheses, 1, i - 1))
          /\ previous_content = Emitted(Syntheses))
    /\ [][IsPrefix(previous_content, previous_content')]_vars

C13_Witness ==
    /\ pc = "returned"
    /\ Len(Syntheses) = 3
    /\ Len(previous_content) = 3
    /\ Len(PreviousOf(Syntheses[3])) = 2
    /\ PreviousOf(Syntheses[3])[1].theme = "economy"
    /\ PreviousOf(Syntheses[3])[2].theme = "climate"

\* C14: the final normalization is idempotent: normalizing a normalized text
\* gives the same text.
C14_NormalizeIdempotent ==
    pc = "returned" => Normalize(digest) = digest

RECURSIVE JoinSpace(_)
JoinSpace(parts) ==
    IF parts = <<>> THEN <<>>
    ELSE IF Len(parts) = 1 THEN parts[1]
    ELSE parts[1] \o <<Space>> \o JoinSpace(Tail(parts))

\* the opening of the run in progress
OpeningOf(lg) == lg[1].info

\* C15: the digest returned is the opening sentence, the non-empty fragments and
\* the closing, each as the normalization leaves it, with exactly one space
\* between neighbours.
C15_SingleSpaceBetweenParts ==
    (pc = "returned" /\ themes # <<>>) =>
        digest = JoinSpace(
                    <<strip(Normalize(OpeningOf(log)))>>
                    \o [i \in 1..Len(previous_content) |->
                           strip(Normalize(previous_content[i].content))]
                    \o <<strip(Normalize(Closing))>>)

IsBlank(reply) == strip(reply) = <<>>
IsNotBlankReply(e) == e.outcome = "ok" /\ ~IsBlank(e.info.reply)

\* the digest and the memory after the replies of f, taken one after the other
RECURSIVE Assemble(_, _)
Assemble(opening, f) ==
    IF f = <<>> THEN [digest |-> opening, previous_content |-> <<>>]
    ELSE LET before == Assemble(opening, SubSeq(f, 1, Len(f) - 1))
             e == f[Len(f)]
         IN  [digest |-> AppendFragment(before.digest, CleanFragment(strip(e.info.reply))),
              previous_content |-> Append(before.previous_content,
                                          [theme |-> e.info.theme,
                                           content |-> CleanFragment(strip(e.info.reply))])]

\* C17: a synthesis call that succeeds with an empty or whitespace-only reply
\* raises nothing and adds nothing: every theme is still processed, and the
\* digest and the memory are those of the run without the calls that replied
\* nothing.
C17_EmptyReplyContributesNothing ==
    /\ \A p \in 1..Len(log) :
          (log[p].kind = "synthesis" /\ log[p].outcome = "ok" /\ IsBlank(log[p].info.reply))
             => /\ p < Len(log) => log[p + 1].kind # "raise"
                /\ p = Len(log) => pc \in {"fragments", "returned"}
    /\ (pc = "fragments" /\ themeIdx < Len(themes)) => ENABLED synthesize_theme
    /\ (pc = "fragments" /\ log # <<>>) =>
          LET a == Assemble(OpeningOf(log), SelectSeq(Syntheses, IsNotBlankReply)) IN
          /\ digest = a.digest
          /\ previous_content = a.previous_content
    /\ (pc = "returned" /\ themes # <<>>) =>
          LET a == Assemble(OpeningOf(log), SelectSeq(Syntheses, IsNotBlankReply)) IN
          /\ Len(Syntheses) = Len(themes)
          /\ digest = Normalize(a.digest \o Closing)
          /\ previous_content = a.previous_content

C17_Witness ==
    /\ pc = "returned"
    /\ Len(Syntheses) = 3
    /\ Syntheses[1].info.reply = <<"a">>
    /\ Syntheses[2].info.reply = <<Newline>>
    /\ Syntheses[3].info.reply = <<"a", Newline, "b">>
    /\ digest = <<"O", ".", Space, "a", Space, "a", Space, "b", Space, "C", ".">>

\* C18: the prompt of a theme is built from the top min(5, bucket size) stories
\* of its bucket and carries the title, the source and, when it is set, the
\* significance of each of them.
C18_PromptCarriesTopFive ==
    \A i \in 1..Len(Syntheses) :
        Syntheses[i].outcome = "ok" =>
            LET sts == themes[i].stories
                h == Syntheses[i].info.prompt.headlines
            IN  /\ Len(h) = Min(5, Len(sts))
                /\ \A j \in 1..Len(h) :
                      /\ h[j].title = sts[j].title
                      /\ "source" \in DOMAIN h[j]
                      /\ h[j].source = sts[j].source
                      /\ sts[j].significance_score # <<>> =>
                            /\ "significance" \in DOMAIN h[j]
                            /\ h[j].significance = sts[j].significance_score[1]

Has(t, pat) == \E i \in 1..Len(t) : StartsWith(SubSeq(t, i, Len(t)), pat)

\* C20: the digest returned holds no em-dash and no en-dash, no two commas that
\* are adjacent or separated by one space only, no comma that is not followed by
\* a space unless it is the last character, and no comma after a space.
C20_NormalizedPunctuation ==
    (pc = "returned" /\ themes # <<>>) =>
        /\ \A i \in 1..Len(digest) : digest[i] \notin {EmDash, EnDash}
        /\ ~Has(digest, <<Comma, Comma>>)
        /\ ~Has(digest, <<Comma, Space, Comma>>)
        /\ ~Has(digest, <<Space, Comma>>)
        /\ \A i \in 1..(Len(digest) - 1) : digest[i] = Comma => digest[i + 1] = Space

\* C25: generate_audio_digest returns its statistics only after one of its
\* attempts has succeeded and written the audio artifact; a call without a
\* successful attempt raises.
C25_ReturnsOnlyAfterSuccess ==
    pc \in {"stats", "done"} =>
        /\ \E i \in 1..Len(TtsSeq) : TtsSeq[i].outcome = "ok"
        /\ files.audio.exists

\* C26: when attempt k succeeds after failed attempts, the audio artifact holds
\* exactly the audio chunks of attempt k, in stream order: nothing a failed
\* attempt or an earlier run wrote remains, and no chunk of another type is
\* written.
C26_OnlyLastAttemptsBytes ==
    (pc \in {"stats", "done"} /\ TtsSeq # <<>> /\ Last(TtsSeq).outcome = "ok") =>
        LET k == Len(TtsSeq)
            d == files.audio.data
        IN  /\ files.audio.exists
            /\ Len(d) = Last(TtsSeq).info.written
            /\ \A i \in 1..Len(d) : d[i] = AudioChunk(k, i).data

C26_Witness ==
    /\ pc = "done"
    /\ Len(TtsSeq) = 3
    /\ TtsSeq[1].info.written = 2
    /\ TtsSeq[2].info.written = 1
    /\ TtsSeq[3].outcome = "ok"
    /\ files0.audio.exists
    /\ files.audio.data = <<AudioChunk(3, 1).data, AudioChunk(3, 2).data>>

\* C27: in the mapping returned no story occurs more than once in the bucket of a
\* theme.
C27_NoStoryTwiceInBucket ==
    an_pc = "returned" =>
        \A b \in 1..Len(an.themes) :
            LET s == an.themes[b].stories IN
            \A i, j \in 1..Len(s) : i # j => s[i] # s[j]

\* C28: when every source yields no story, the run makes no analysis, synthesis
\* or speech call, writes no file, raises nothing and returns no result.
C28_NoStoriesNoWork ==
    (srcIdx = NumSources /\ all_stories = <<>> /\ pc # "collect") =>
        /\ pc = "done"
        /\ result = [kind |-> "none"]
        /\ files = files0
        /\ \A i \in 1..Len(log) : log[i].kind = "fetch"

C28_Witness ==
    /\ pc = "done"
    /\ result = [kind |-> "none"]
    /\ Len(Fetches) = NumSources
    /\ Fetches[1].outcome = "error"
    /\ Fetches[NumSources].outcome = "ok"

\* the step of the run an event belongs to
StepOf(e) ==
    CASE e.kind = "fetch" -> 1
      [] e.kind = "analysis" -> 2
      [] e.kind = "synthesis" -> 3
      [] e.kind \in {"tts", "sleep"} -> 4
      [] e.kind = "write_text" -> 5
      [] OTHER -> 0

\* C23: a run that has stories goes through collection, one analysis call, the
\* synthesis calls, the audio rendering and the persistence of the digest text in
\* this order, and the text is not persisted before the rendering has completed.
C23_StepsInOrder ==
    /\ \A i, j \in 1..Len(log) :
          (i < j /\ StepOf(log[i]) # 0 /\ StepOf(log[j]) # 0)
             => StepOf(log[i]) <= StepOf(log[j])
    /\ Cardinality(Positions("analysis")) <= 1
    /\ Positions("write_text") # {} =>
          \E i \in 1..Len(TtsSeq) : TtsSeq[i].outcome = "ok"

RECURSIVE Count(_, _)
Count(s, x) ==
    IF s = <<>> THEN 0
    ELSE (IF Head(s) = x THEN 1 ELSE 0) + Count(Tail(s), x)

\* C29: the digest text the run persists and hands to the audio rendering begins
\* with the opening sentence and ends with the closing disclaimer, each exactly
\* once.
C29_OpeningAndClosing ==
    Positions("write_text") # {} =>
        /\ files.text.data = <<"header">> \o digest
        /\ Head(digest) = "opening"
        /\ Last(digest) = "closing"
        /\ Count(digest, "opening") = 1
        /\ Count(digest, "closing") = 1

\* C30: after each theme the memory and the body of the digest agree: the digest
\* is the opening followed by the fragments of the memory, in the order of the
\* memory, so a fragment is in the one exactly when it is in the other.
C30_MemoryMatchesDigest ==
    (pc = "fragments" /\ log # <<>>) =>
        /\ digest = IF previous_content = <<>> THEN OpeningOf(log)
                    ELSE JoinSpace(<<rstrip(OpeningOf(log))>>
                                   \o [i \in 1..Len(previous_content) |->
                                          previous_content[i].content])
        /\ \A i \in 1..Len(previous_content) : previous_content[i].content # <<>>

C30_Witness ==
    /\ pc = "fragments"
    /\ themeIdx = 3
    /\ Syntheses[1].info.reply = <<Space, "a", Newline>>
    /\ Syntheses[2].info.reply = <<Space>>
    /\ Syntheses[3].info.reply = <<"a", Space, Space, "b">>
    /\ Len(previous_content) = 2
    /\ OpeningOf(log) = <<"O", ".", Space>>
    /\ digest = <<"O", ".", Space, "a", Space, "a", Space, "b">>

\* C24: a run returns the files on disk as valid artifacts only if an earlier run
\* for the locale and date completed; after a run that failed, the next run goes
\* through the pipeline again.
C24_ShortCircuitOnlyAfterSuccess ==
    (pc = "done" /\ result.kind = "existing") => EarlierCompleted

\* the markup of the page, and the selectors that were consulted
MarkupOf(lg) == lg[1].info
Consulted == {log[i].info : i \in {j \in 1..Len(log) : log[j].kind = "select"}}

\* C21: the selectors are tried in their listed order and the first that matches
\* at least one element wins: every story returned comes from it and no later
\* selector is consulted, also when the filters remove all its matches.
C21_FirstMatchingSelectorWins ==
    pc = "extracted" =>
        LET m == MarkupOf(log)
            matching == {k \in 1..Len(Selectors) : m[k] # <<>>}
        IN  IF matching = {}
            THEN stories = <<>> /\ Consulted = 1..Len(Selectors)
            ELSE LET w == CHOOSE k \in matching : \A j \in matching : k <= j IN
                 /\ Consulted = 1..w
                 /\ Titles(stories) \subseteq Range(m[w])

\* C22: a text that passes the other filters is kept exactly when its length is
\* from 15 to 200 characters, both included: every story returned has such a
\* title, and a text of a consulted selector of 15 to 200 characters that is
\* not boilerplate is the title of a story returned.
C22_LengthBoundsInclusive ==
    pc = "extracted" =>
        LET m == MarkupOf(log) IN
        /\ \A t \in Titles(stories) : t.len >= MinTitleLen /\ t.len <= MaxTitleLen
        /\ \A k \in Consulted : \A i \in 1..Min(ElementCap, Len(m[k])) :
              (~m[k][i].boiler /\ m[k][i].len >= MinTitleLen /\ m[k][i].len <= MaxTitleLen)
                 => m[k][i] \in Titles(stories)
====
